---- MODULE Spec2Model ----
(***************************************************************************)
(* dynamic_db_router/router.py: the two context variables that hold the    *)
(* database alias used for reads and for writes, and in_database, the      *)
(* context manager / decorator that overrides them for the duration of a   *)
(* block and restores them afterwards, optionally registering a database   *)
(* configuration of its own in django.db.connections.                      *)
(*                                                                         *)
(* One state of the model is the state of one Python process: the value    *)
(* each execution context (thread or asyncio task) sees in the two         *)
(* ContextVars, the in_database instances constructed so far with their    *)
(* attributes, connections.databases, and for each context the with-blocks *)
(* it is inside and the exception it is propagating.                       *)
(***************************************************************************)
EXTENDS Naturals, Sequences, FiniteSets, TLC

\* ---------------------------------------------------------------- bounds
\* in_database instances the program keeps: decorators of functions.
MaxObjs == 1
\* with-blocks open at the same time, over all contexts.
MaxDepth == 3
\* identifiers uuid4() can draw from in one run.
MaxUuids == 2

\* The execution contexts (threads or tasks) of the process.
Contexts == {"ctx1", "ctx2"}
\* The aliases configured in settings.DATABASES.
Aliases == {"default", "replica"}
\* Configuration dictionaries a caller may pass. The code stores the dictionary
\* and never looks into it.
Configs == {"sqlite"}
\* The configuration settings.DATABASES gives its aliases.
Settings == "settings"
\* An attribute that has not been assigned yet.
Unset == "<unset>"
\* No exception is propagating.
NoExc == "<none>"

\* A task that is not suspended: it awaits no future. A task suspended in
\* __aexit__ awaits the future of run_in_executor(None, self._close_connection):
\* id is self.unique_db_id, state is "pending" until the executor thread has
\* run the function and "done" afterwards, result is the exception the function
\* raised (or NoExc), and pre_read, pre_write are the aliases the task had just
\* before it entered the scope it is leaving.
Idle == [id |-> Unset, state |-> "idle", result |-> NoExc,
         pre_read |-> Unset, pre_write |-> Unset]

\* The ORM has not called the router yet.
NoCall == [context |-> Unset, method |-> Unset, value |-> Unset]

\* A context that holds no coroutine object of a decorated function. ref is the
\* index in objs of the decorating instance; state is "created" from the call
\* of the function until the coroutine is awaited and "running" while its
\* body executes.
NoCoro == [ref |-> 0, state |-> "none"]

\* The values a caller may pass as `database`: a str, a dict, or neither.
DatabaseArgs ==
    [type : {"str"}, value : Aliases]
        \cup [type : {"dict"}, value : Configs]
        \cup [type : {"int"}, value : {"42"}]

VARIABLES
    DB_FOR_READ_OVERRIDE,   \* [Contexts -> alias]: the ContextVar, per context
    DB_FOR_WRITE_OVERRIDE,  \* [Contexts -> alias]
    objs,                   \* the in_database instances that decorate functions
    generated,              \* the identifiers uuid4() has returned
    databases,              \* connections.databases: alias -> configuration
    closed,                 \* aliases whose connection has had close() called
    stack,                  \* [Contexts -> Seq(frame)]: the open with-blocks,
                            \* innermost last
    exc,                    \* [Contexts -> the exception propagating, or NoExc]
    awaiting,               \* [Contexts -> the run_in_executor future the task
                            \* is suspended on in __aexit__, or Idle]
    returned,               \* the last call of a DynamicDbRouter method and the
                            \* value it returned to the ORM, or NoCall
    coroutine               \* [Contexts -> the coroutine object the context got
                            \* from a decorated coroutine function, or NoCoro]

vars == <<DB_FOR_READ_OVERRIDE, DB_FOR_WRITE_OVERRIDE, objs, generated,
          databases, closed, stack, exc, awaiting, returned, coroutine>>

\* The state of the code around in_database: what the ORM got from the router
\* and the coroutine objects the callers of decorated functions hold.
caller_state == <<returned, coroutine>>

\* The state of the tasks that only the asynchronous protocol changes.
async_state == <<awaiting>>

\* ------------------------------------------------------------ ContextVar
\* ContextVar(name, default='default'): every context starts at the default.
ContextVar == [c \in Contexts |-> "default"]

\* var.get() in context c.
ContextVar_get(var, c) == var[c]

\* A module-level global instead of a ContextVar: one cell for all contexts.
global_set(var, c, v) == [x \in DOMAIN var |-> v]

\* var.set(v) in context c: only c's value changes.
ContextVar_set(var, c, v) == [var EXCEPT ![c] = v]

\* --------------------------------------------------------- DynamicDbRouter
db_for_read(c) == ContextVar_get(DB_FOR_READ_OVERRIDE, c)

db_for_write(c) == ContextVar_get(DB_FOR_WRITE_OVERRIDE, c)

\* The models and the hints the ORM passes to the router.
Models == {"Account", "Order"}

Hints == {"{}", "{'instance': obj}"}

\* The Python values True and None.
True == "True"

None == "None"

allow_relation(args, kwargs) == True

allow_syncdb(args, kwargs) == None

allow_migrate(args, kwargs) == None

\* The methods of the router the ORM calls.
Methods == {"db_for_read", "db_for_write", "allow_relation", "allow_syncdb",
            "allow_migrate"}

\* A router that sends one model to the default database whatever the context.
router_by_model(c, method, model, hints) ==
    CASE method = "db_for_read" -> IF model = "Order" THEN "default" ELSE db_for_read(c)
      [] method = "db_for_write" -> IF model = "Order" THEN "default" ELSE db_for_write(c)
      [] method = "allow_relation" -> allow_relation(model, hints)
      [] method = "allow_syncdb" -> allow_syncdb(model, hints)
      [] method = "allow_migrate" -> allow_migrate(model, hints)

\* DynamicDbRouter().method(model, **hints) called in context c: the value
\* returned.
DynamicDbRouter(c, method, model, hints) ==
    CASE method = "db_for_read" -> db_for_read(c)
      [] method = "db_for_write" -> db_for_write(c)
      [] method = "allow_relation" -> allow_relation(model, hints)
      [] method = "allow_syncdb" -> allow_syncdb(model, hints)
      [] method = "allow_migrate" -> allow_migrate(model, hints)

\* ------------------------------------------------- connections.databases
dict_setitem(d, k, v) == [x \in DOMAIN d \cup {k} |-> IF x = k THEN v ELSE d[x]]

dict_delitem(d, k) == [x \in DOMAIN d \ {k} |-> d[x]]

\* ------------------------------------------------------------- in_database
Uuid(n) == "uuid-" \o ToString(n)

\* A generator that returns the same identifier at every call.
uuid4_repeats == {Uuid(1)}

\* str(uuid4()): an identifier no earlier call returned. The identifiers are
\* numbered in the order in which uuid4 returns them.
uuid4 == {Uuid(n) : n \in 1..MaxUuids} \cap {Uuid(Cardinality(generated) + 1)}

isinstance_str(database) == database.type = "str"

isinstance_dict(database) == database.type = "dict"

\* The identifiers the constructor may draw: it calls uuid4 only for a dict.
unique_db_ids(database) == IF isinstance_dict(database) THEN uuid4 ELSE {Unset}

\* __init__ registering the argument before it looks at its type.
init_register_first(database, read, write, id, dbs) ==
    IF isinstance_str(database)
    THEN [exc |-> NoExc, databases |-> dbs,
          self |-> [read |-> read, write |-> write, database |-> database.value,
                    created_db_config |-> FALSE, unique_db_id |-> Unset,
                    original_read_db |-> Unset, original_write_db |-> Unset]]
    ELSE IF isinstance_dict(database)
    THEN [exc |-> NoExc, databases |-> dict_setitem(dbs, id, database.value),
          self |-> [read |-> read, write |-> write, database |-> id,
                    created_db_config |-> TRUE, unique_db_id |-> id,
                    original_read_db |-> Unset, original_write_db |-> Unset]]
    ELSE [exc |-> "ValueError", databases |-> dict_setitem(dbs, id, database.value),
          self |-> [read |-> read, write |-> write, database |-> database.value,
                    created_db_config |-> FALSE, unique_db_id |-> Unset,
                    original_read_db |-> Unset, original_write_db |-> Unset]]

\* in_database.__init__(self, database, read, write), uuid4() returning id and
\* connections.databases being dbs: the exception raised (or NoExc), the
\* attributes of self and connections.databases afterwards.
__init__(database, read, write, id, dbs) ==
    IF isinstance_str(database)
    THEN [exc |-> NoExc, databases |-> dbs,
          self |-> [read |-> read, write |-> write, database |-> database.value,
                    created_db_config |-> FALSE, unique_db_id |-> Unset,
                    original_read_db |-> Unset, original_write_db |-> Unset]]
    ELSE IF isinstance_dict(database)
    THEN [exc |-> NoExc, databases |-> dict_setitem(dbs, id, database.value),
          self |-> [read |-> read, write |-> write, database |-> id,
                    created_db_config |-> TRUE, unique_db_id |-> id,
                    original_read_db |-> Unset, original_write_db |-> Unset]]
    ELSE [exc |-> "ValueError", databases |-> dbs,
          self |-> [read |-> read, write |-> write, database |-> database.value,
                    created_db_config |-> FALSE, unique_db_id |-> Unset,
                    original_read_db |-> Unset, original_write_db |-> Unset]]

\* read off unless the caller asks for it.
read_default_off == FALSE

\* `def __init__(self, database, read=True, write=False)`: the values of the
\* flags the caller leaves out.
read_default == TRUE

write_default == FALSE

\* The override set whatever the flag says.
override_always(flag, database, current) == database

\* `if self.read: DB_FOR_READ_OVERRIDE.set(self.database)` (and the same for
\* write): the value the cell holds after entry.
override(flag, database, current) == IF flag THEN database ELSE current

\* Restoring the default alias instead of the value saved at entry.
restore_default(saved) == "default"

\* `DB_FOR_READ_OVERRIDE.set(self.original_read_db)`: the value restored.
restore(saved) == saved

\* __enter__ saving each alias in the attribute of the other.
saved_swapped(self, r, w) == [self EXCEPT !.original_read_db = w, !.original_write_db = r]

\* The attributes of self after __enter__ has saved the current aliases r, w.
saved(self, r, w) == [self EXCEPT !.original_read_db = r, !.original_write_db = w]

\* A frame of the stack: a with-block a context is inside. ref is the index in
\* objs of the instance the block was entered with, or 0 for
\* `with in_database(...)`, whose instance (self) only the block refers to.
\* pre_read and pre_write are the aliases the context had just before entry.
NoObj == [read |-> FALSE, write |-> FALSE, database |-> Unset,
          created_db_config |-> FALSE, unique_db_id |-> Unset,
          original_read_db |-> Unset, original_write_db |-> Unset]

Frame(ref, self, r, w) ==
    [ref |-> ref, self |-> IF ref = 0 THEN self ELSE NoObj,
     pre_read |-> r, pre_write |-> w]

\* The instance of a frame.
Self(f) == IF f.ref = 0 THEN f.self ELSE objs[f.ref]

Top(c) == stack[c][Len(stack[c])]

RECURSIVE SumLen(_)
SumLen(S) == IF S = {} THEN 0
             ELSE LET c == CHOOSE x \in S : TRUE IN Len(stack[c]) + SumLen(S \ {c})

\* The number of with-blocks open in the process.
Open == SumLen(Contexts)

\* self.__enter__() in context c; ref says where self lives.
__enter__(c, ref, self) ==
    LET r == ContextVar_get(DB_FOR_READ_OVERRIDE, c)
        w == ContextVar_get(DB_FOR_WRITE_OVERRIDE, c)
    IN  /\ DB_FOR_READ_OVERRIDE' = ContextVar_set(DB_FOR_READ_OVERRIDE, c,
                                       override(self.read, self.database, r))
        /\ DB_FOR_WRITE_OVERRIDE' = ContextVar_set(DB_FOR_WRITE_OVERRIDE, c,
                                       override(self.write, self.database, w))
        /\ stack' = [stack EXCEPT ![c] = Append(@, Frame(ref, saved(self, r, w), r, w))]
        /\ objs' = IF ref = 0 THEN objs ELSE [objs EXCEPT ![ref] = saved(self, r, w)]

\* The teardown that forgets to delete the configuration.
teardown_no_delete(c, id) ==
    /\ closed' = closed \cup {id}
    /\ UNCHANGED <<databases, exc>>

\* `connections[id].close(); del connections.databases[id]` in context c.
\* With the entry gone, either the lookup raises ConnectionDoesNotExist (the
\* thread holds no connection object for id), or it returns the thread's cached
\* connection, which is closed again, and the del raises KeyError.
teardown(c, id) ==
    \/ /\ id \in DOMAIN databases
       /\ closed' = closed \cup {id}
       /\ databases' = dict_delitem(databases, id)
       /\ UNCHANGED exc
    \/ /\ id \notin DOMAIN databases
       /\ closed' = closed \cup {id}
       /\ exc' = [exc EXCEPT ![c] = "KeyError"]
       /\ UNCHANGED databases
    \/ /\ id \notin DOMAIN databases
       /\ exc' = [exc EXCEPT ![c] = "ConnectionDoesNotExist"]
       /\ UNCHANGED <<databases, closed>>

\* self.__exit__(exc_type, exc_value, traceback) in context c, for the innermost
\* with-block of c: the body has completed, or an exception is leaving it.
__exit__(c) ==
    /\ stack[c] # <<>>
    /\ LET self == Self(Top(c))
       IN  /\ DB_FOR_READ_OVERRIDE' = ContextVar_set(DB_FOR_READ_OVERRIDE, c,
                                          restore(self.original_read_db))
           /\ DB_FOR_WRITE_OVERRIDE' = ContextVar_set(DB_FOR_WRITE_OVERRIDE, c,
                                          restore(self.original_write_db))
           /\ IF self.created_db_config
              THEN teardown(c, self.unique_db_id)
              ELSE UNCHANGED <<databases, closed, exc>>
    /\ stack' = [stack EXCEPT ![c] = SubSeq(@, 1, Len(@) - 1)]
    /\ UNCHANGED <<objs, generated, async_state, caller_state>>

\* `with in_database(database, read, write):` reached in context c: the
\* instance is constructed and, unless the constructor raises, entered.
with_in_database(c, database, read, write) ==
    /\ exc[c] = NoExc
    /\ Open < MaxDepth
    /\ \E id \in unique_db_ids(database) :
        LET made == __init__(database, read, write, id, databases)
        IN  /\ databases' = made.databases
            /\ generated' = generated \cup ({id} \ {Unset})
            /\ exc' = [exc EXCEPT ![c] = made.exc]
            /\ IF made.exc = NoExc
               THEN __enter__(c, 0, made.self)
               ELSE UNCHANGED <<DB_FOR_READ_OVERRIDE, DB_FOR_WRITE_OVERRIDE, stack, objs>>
    /\ UNCHANGED <<closed, async_state, caller_state>>

\* `with in_database(database):` reached in context c: both flags left out.
with_in_database_defaults(c, database) ==
    with_in_database(c, database, read_default, write_default)

\* `@in_database(database, read, write)` above a function definition, run in
\* context c: the instance is constructed and __call__ wraps the function; the
\* program keeps the instance for as long as it keeps the function.
__call__(c, database, read, write) ==
    /\ exc[c] = NoExc
    /\ Len(objs) < MaxObjs
    /\ \E id \in unique_db_ids(database) :
        LET made == __init__(database, read, write, id, databases)
        IN  /\ databases' = made.databases
            /\ generated' = generated \cup ({id} \ {Unset})
            /\ exc' = [exc EXCEPT ![c] = made.exc]
            /\ objs' = IF made.exc = NoExc THEN Append(objs, made.self) ELSE objs
    /\ UNCHANGED <<DB_FOR_READ_OVERRIDE, DB_FOR_WRITE_OVERRIDE, closed, stack,
                   async_state, caller_state>>

\* A call of the function that objs[i] decorates, in context c: `with self:`.
inner(c, i) ==
    /\ exc[c] = NoExc
    /\ i \in 1..Len(objs)
    /\ Open < MaxDepth
    /\ __enter__(c, i, objs[i])
    /\ UNCHANGED <<generated, databases, closed, exc, async_state, caller_state>>

\* The code inside a with-block raises.
querying_func_raises(c) ==
    /\ exc[c] = NoExc
    /\ stack[c] # <<>>
    /\ exc' = [exc EXCEPT ![c] = "QueryError"]
    /\ UNCHANGED <<DB_FOR_READ_OVERRIDE, DB_FOR_WRITE_OVERRIDE, objs, generated,
                   databases, closed, stack, async_state, caller_state>>

\* The exception reaches a caller that handles it.
caller_except(c) ==
    /\ exc[c] # NoExc
    /\ exc' = [exc EXCEPT ![c] = NoExc]
    /\ UNCHANGED <<DB_FOR_READ_OVERRIDE, DB_FOR_WRITE_OVERRIDE, objs, generated,
                   databases, closed, stack, async_state, caller_state>>

\* The ORM, working in context c, calls a method of the router.
orm_calls_router(c, method, model, hints) ==
    /\ returned' = [context |-> c, method |-> method,
                    value |-> DynamicDbRouter(c, method, model, hints)]
    /\ UNCHANGED <<DB_FOR_READ_OVERRIDE, DB_FOR_WRITE_OVERRIDE, objs, generated,
                   databases, closed, stack, exc, awaiting, coroutine>>

\* ------------------------------------------------- asynchronous protocol
\* await self.__aenter__() in task c; ref says where self lives. The coroutine
\* contains no await: it runs to its return in one step of the event loop.
__aenter__(c, ref, self) ==
    LET r == ContextVar_get(DB_FOR_READ_OVERRIDE, c)
        w == ContextVar_get(DB_FOR_WRITE_OVERRIDE, c)
    IN  /\ DB_FOR_READ_OVERRIDE' = ContextVar_set(DB_FOR_READ_OVERRIDE, c,
                                       override(self.read, self.database, r))
        /\ DB_FOR_WRITE_OVERRIDE' = ContextVar_set(DB_FOR_WRITE_OVERRIDE, c,
                                       override(self.write, self.database, w))
        /\ stack' = [stack EXCEPT ![c] = Append(@, Frame(ref, saved(self, r, w), r, w))]
        /\ objs' = IF ref = 0 THEN objs ELSE [objs EXCEPT ![ref] = saved(self, r, w)]

\* The future of run_in_executor(None, self._close_connection) that task c
\* awaits when it leaves the with-block f.
Future(f) ==
    [id |-> Self(f).unique_db_id, state |-> "pending", result |-> NoExc,
     pre_read |-> f.pre_read, pre_write |-> f.pre_write]

\* __aexit__ awaiting the teardown before it restores the aliases.
aexit_await_first(c) ==
    /\ stack[c] # <<>>
    /\ awaiting[c] = Idle
    /\ awaiting' = IF Self(Top(c)).created_db_config
                   THEN [awaiting EXCEPT ![c] = Future(Top(c))]
                   ELSE awaiting
    /\ stack' = [stack EXCEPT ![c] = SubSeq(@, 1, Len(@) - 1)]
    /\ UNCHANGED <<DB_FOR_READ_OVERRIDE, DB_FOR_WRITE_OVERRIDE, objs, generated,
                   databases, closed, exc>>
    /\ UNCHANGED caller_state

\* await self.__aexit__(exc_type, exc, tb) in task c, for the innermost
\* with-block of c, up to its await: both aliases are restored, and an
\* instance that created a configuration hands _close_connection to the
\* executor and suspends the task; any other instance is done.
__aexit__(c) ==
    /\ stack[c] # <<>>
    /\ awaiting[c] = Idle
    /\ LET self == Self(Top(c))
       IN  /\ DB_FOR_READ_OVERRIDE' = ContextVar_set(DB_FOR_READ_OVERRIDE, c,
                                          restore(self.original_read_db))
           /\ DB_FOR_WRITE_OVERRIDE' = ContextVar_set(DB_FOR_WRITE_OVERRIDE, c,
                                          restore(self.original_write_db))
           /\ awaiting' = IF self.created_db_config
                          THEN [awaiting EXCEPT ![c] = Future(Top(c))]
                          ELSE awaiting
    /\ stack' = [stack EXCEPT ![c] = SubSeq(@, 1, Len(@) - 1)]
    /\ UNCHANGED <<objs, generated, databases, closed, exc>>
    /\ UNCHANGED caller_state

\* _close_connection closing the connection and leaving the entry in place.
close_connection_keeps_entry(c) ==
    /\ awaiting[c].state = "pending"
    /\ closed' = closed \cup {awaiting[c].id}
    /\ awaiting' = [awaiting EXCEPT ![c].state = "done"]
    /\ UNCHANGED <<DB_FOR_READ_OVERRIDE, DB_FOR_WRITE_OVERRIDE, objs, generated,
                   stack, exc, databases>>
    /\ UNCHANGED caller_state

\* self._close_connection() run by a thread of the executor for the future task
\* c awaits: `connections[id].close(); del connections.databases[id]`. With the
\* entry gone the lookup raises ConnectionDoesNotExist, or it returns a
\* connection the thread has cached and the del raises KeyError.
_close_connection(c) ==
    /\ awaiting[c].state = "pending"
    /\ LET id == awaiting[c].id
       IN  \/ /\ id \in DOMAIN databases
              /\ closed' = closed \cup {id}
              /\ databases' = dict_delitem(databases, id)
              /\ awaiting' = [awaiting EXCEPT ![c].state = "done"]
           \/ /\ id \notin DOMAIN databases
              /\ closed' = closed \cup {id}
              /\ awaiting' = [awaiting EXCEPT ![c].state = "done",
                                              ![c].result = "KeyError"]
              /\ UNCHANGED databases
           \/ /\ id \notin DOMAIN databases
              /\ awaiting' = [awaiting EXCEPT ![c].state = "done",
                                              ![c].result = "ConnectionDoesNotExist"]
              /\ UNCHANGED <<databases, closed>>
    /\ UNCHANGED <<DB_FOR_READ_OVERRIDE, DB_FOR_WRITE_OVERRIDE, objs, generated,
                   stack, exc>>
    /\ UNCHANGED caller_state

\* The event loop resumes task c at `await loop.run_in_executor(...)`: the
\* await returns, or raises what _close_connection raised, and __aexit__ ends.
await_run_in_executor(c) ==
    /\ awaiting[c].state = "done"
    /\ exc' = [exc EXCEPT ![c] = IF awaiting[c].result = NoExc
                                 THEN @ ELSE awaiting[c].result]
    /\ awaiting' = [awaiting EXCEPT ![c] = Idle]
    /\ UNCHANGED <<DB_FOR_READ_OVERRIDE, DB_FOR_WRITE_OVERRIDE, objs, generated,
                   databases, closed, stack>>
    /\ UNCHANGED caller_state

\* `async with in_database(database, read, write):` reached in task c: the
\* instance is constructed and, unless the constructor raises, entered.
async_with_in_database(c, database, read, write) ==
    /\ exc[c] = NoExc
    /\ awaiting[c] = Idle
    /\ Open < MaxDepth
    /\ \E id \in unique_db_ids(database) :
        LET made == __init__(database, read, write, id, databases)
        IN  /\ databases' = made.databases
            /\ generated' = generated \cup ({id} \ {Unset})
            /\ exc' = [exc EXCEPT ![c] = made.exc]
            /\ IF made.exc = NoExc
               THEN __aenter__(c, 0, made.self)
               ELSE UNCHANGED <<DB_FOR_READ_OVERRIDE, DB_FOR_WRITE_OVERRIDE, stack, objs>>
    /\ UNCHANGED <<closed, awaiting>>
    /\ UNCHANGED caller_state

\* ------------------------------------------- decorated coroutine functions
\* A call, in context c, of the coroutine function (`async def`) that objs[i]
\* decorates. inner runs `with self: return querying_func(*args, **kwargs)`:
\* __enter__, then the call, which only creates the coroutine object and runs
\* nothing of the body, then __exit__, which restores what __enter__ has just
\* saved and tears the configuration down. Unless __exit__ raises, the caller
\* gets the coroutine object.
inner_coroutine(c, i) ==
    /\ exc[c] = NoExc
    /\ i \in 1..Len(objs)
    /\ coroutine[c] = NoCoro
    /\ LET r == ContextVar_get(DB_FOR_READ_OVERRIDE, c)
           w == ContextVar_get(DB_FOR_WRITE_OVERRIDE, c)
           self == saved(objs[i], r, w)
       IN  /\ objs' = [objs EXCEPT ![i] = self]
           /\ DB_FOR_READ_OVERRIDE' = ContextVar_set(DB_FOR_READ_OVERRIDE, c,
                                          restore(self.original_read_db))
           /\ DB_FOR_WRITE_OVERRIDE' = ContextVar_set(DB_FOR_WRITE_OVERRIDE, c,
                                          restore(self.original_write_db))
           /\ IF self.created_db_config
              THEN teardown(c, self.unique_db_id)
              ELSE UNCHANGED <<databases, closed, exc>>
    /\ coroutine' = IF exc'[c] = NoExc
                    THEN [coroutine EXCEPT ![c] = [ref |-> i, state |-> "created"]]
                    ELSE coroutine
    /\ UNCHANGED <<generated, stack, awaiting, returned>>

\* The caller awaits the coroutine object: the body of the decorated function
\* starts to run, in the context of the caller.
await_coroutine(c) ==
    /\ coroutine[c].state = "created"
    /\ coroutine' = [coroutine EXCEPT ![c].state = "running"]
    /\ UNCHANGED <<DB_FOR_READ_OVERRIDE, DB_FOR_WRITE_OVERRIDE, objs, generated,
                   databases, closed, stack, exc, awaiting, returned>>

\* The body of the decorated coroutine function returns.
coroutine_returns(c) ==
    /\ coroutine[c].state = "running"
    /\ coroutine' = [coroutine EXCEPT ![c] = NoCoro]
    /\ UNCHANGED <<DB_FOR_READ_OVERRIDE, DB_FOR_WRITE_OVERRIDE, objs, generated,
                   databases, closed, stack, exc, awaiting, returned>>

\* ------------------------------------------------------- failing teardown
\* What `connections[id].close()` can raise for a registered id: the lookup
\* builds the thread's connection from the configuration, which the code has
\* not validated, and close() talks to the database.
TeardownErrors == {"ImproperlyConfigured", "OperationalError"}

\* __exit__ tearing down before it restores: a failure leaves the aliases.
exit_teardown_first(c, error) ==
    /\ stack[c] # <<>>
    /\ Self(Top(c)).created_db_config
    /\ Self(Top(c)).unique_db_id \in DOMAIN databases
    /\ exc' = [exc EXCEPT ![c] = error]
    /\ stack' = [stack EXCEPT ![c] = SubSeq(@, 1, Len(@) - 1)]
    /\ UNCHANGED <<DB_FOR_READ_OVERRIDE, DB_FOR_WRITE_OVERRIDE, databases, closed,
                   objs, generated, async_state, caller_state>>

\* self.__exit__(...) in context c, for the innermost with-block of c, when
\* `connections[self.unique_db_id].close()` raises error: the aliases have been
\* restored, the del is not reached and error leaves __exit__.
__exit__raising(c, error) ==
    /\ stack[c] # <<>>
    /\ LET self == Self(Top(c))
       IN  /\ self.created_db_config
           /\ self.unique_db_id \in DOMAIN databases
           /\ DB_FOR_READ_OVERRIDE' = ContextVar_set(DB_FOR_READ_OVERRIDE, c,
                                          restore(self.original_read_db))
           /\ DB_FOR_WRITE_OVERRIDE' = ContextVar_set(DB_FOR_WRITE_OVERRIDE, c,
                                          restore(self.original_write_db))
    /\ exc' = [exc EXCEPT ![c] = error]
    /\ stack' = [stack EXCEPT ![c] = SubSeq(@, 1, Len(@) - 1)]
    /\ UNCHANGED <<databases, closed, objs, generated, async_state, caller_state>>

\* self._close_connection() run by a thread of the executor, when
\* `connections[self.unique_db_id].close()` raises error: the future of task c
\* holds the exception.
_close_connection_raising(c, error) ==
    /\ awaiting[c].state = "pending"
    /\ awaiting[c].id \in DOMAIN databases
    /\ awaiting' = [awaiting EXCEPT ![c].state = "done", ![c].result = error]
    /\ UNCHANGED <<DB_FOR_READ_OVERRIDE, DB_FOR_WRITE_OVERRIDE, objs, generated,
                   databases, closed, stack, exc, caller_state>>

\* ---------------------------------------------------------- specification
Init ==
    /\ DB_FOR_READ_OVERRIDE = ContextVar
    /\ DB_FOR_WRITE_OVERRIDE = ContextVar
    /\ objs = <<>>
    /\ generated = {}
    /\ databases = [a \in Aliases |-> Settings]
    /\ closed = {}
    /\ stack = [c \in Contexts |-> <<>>]
    /\ exc = [c \in Contexts |-> NoExc]
    /\ awaiting = [c \in Contexts |-> Idle]
    /\ returned = NoCall
    /\ coroutine = [c \in Contexts |-> NoCoro]

\* Every use of the synchronous interface, in every context. The
\* specifications below are the programs that use one part of the interface.
Next ==
    \E c \in Contexts :
        \/ \E database \in DatabaseArgs, read \in BOOLEAN, write \in BOOLEAN :
               with_in_database(c, database, read, write)
        \/ \E database \in DatabaseArgs, read \in BOOLEAN, write \in BOOLEAN :
               __call__(c, database, read, write)
        \/ \E i \in 1..Len(objs) : inner(c, i)
        \/ __exit__(c)
        \/ querying_func_raises(c)
        \/ caller_except(c)

Spec == Init /\ [][Next]_vars

\* A single-threaded program that uses in_database only as
\* `with in_database(...):`, every block with an instance of its own.
MainContext == "ctx1"

NextSequential ==
    \E c \in {MainContext} :
        \/ \E database \in DatabaseArgs, read \in BOOLEAN, write \in BOOLEAN :
               with_in_database(c, database, read, write)
        \/ __exit__(c)
        \/ querying_func_raises(c)
        \/ caller_except(c)

SpecSequential == Init /\ [][NextSequential]_vars

\* Contexts that run `with in_database(...):` blocks side by side, with valid
\* arguments and bodies that complete.
NextThreads ==
    \E c \in Contexts :
        \/ \E database \in DatabaseArgs, read \in BOOLEAN, write \in BOOLEAN :
               /\ isinstance_str(database) \/ isinstance_dict(database)
               /\ with_in_database(c, database, read, write)
        \/ __exit__(c)

SpecThreads == Init /\ [][NextThreads]_vars

\* A program that uses in_database only as a decorator; the decorated function
\* may call itself and may be called from every context.
NextDecorated ==
    \E c \in Contexts :
        \/ \E database \in DatabaseArgs, read \in BOOLEAN, write \in BOOLEAN :
               __call__(c, database, read, write)
        \/ \E i \in 1..Len(objs) : inner(c, i)
        \/ __exit__(c)
        \/ querying_func_raises(c)
        \/ caller_except(c)

SpecDecorated == Init /\ [][NextDecorated]_vars

\* A task that runs `async with in_database(...):` blocks, every block with an
\* instance of its own, and the executor thread that serves it; the code
\* inside a block may raise while the task is running.
NextAsync ==
    \E c \in {MainContext} :
        \/ \E database \in DatabaseArgs, read \in BOOLEAN, write \in BOOLEAN :
               /\ isinstance_str(database) \/ isinstance_dict(database)
               /\ async_with_in_database(c, database, read, write)
        \/ __aexit__(c)
        \/ _close_connection(c)
        \/ await_run_in_executor(c)
        \/ awaiting[c] = Idle /\ querying_func_raises(c)
        \/ awaiting[c] = Idle /\ caller_except(c)

SpecAsync == Init /\ [][NextAsync]_vars

\* A program whose main context runs `with in_database(...):` blocks one
\* after the other, with valid arguments, while the ORM calls the router in
\* every context.
NextRouted ==
    \/ \E c \in {MainContext} :
        \/ \E database \in DatabaseArgs, read \in BOOLEAN, write \in BOOLEAN :
               /\ isinstance_str(database) \/ isinstance_dict(database)
               /\ stack[c] = <<>>
               /\ with_in_database(c, database, read, write)
        \/ __exit__(c)
    \/ \E c \in Contexts, method \in Methods, model \in Models, hints \in Hints :
           orm_calls_router(c, method, model, hints)

SpecRouted == Init /\ [][NextRouted]_vars

\* Contexts that run `with in_database(database):` blocks, no flag given.
NextDefaults ==
    \E c \in Contexts :
        \/ \E database \in DatabaseArgs : with_in_database_defaults(c, database)
        \/ __exit__(c)
        \/ caller_except(c)

SpecDefaults == Init /\ [][NextDefaults]_vars

\* A thread that runs `with in_database(...):` blocks and a task that runs
\* `async with in_database(...):` blocks, with valid arguments, against
\* databases whose connections may fail at teardown. The two take turns: one
\* works while the other is outside every block. An exception of a teardown
\* unwinds the blocks around it.
TaskContext == "ctx2"

NextFaulty ==
    \/ \E c \in {MainContext} :
        /\ stack[TaskContext] = <<>> /\ awaiting[TaskContext] = Idle
        /\ \/ \E database \in DatabaseArgs, read \in BOOLEAN, write \in BOOLEAN :
                  /\ isinstance_str(database) \/ isinstance_dict(database)
                  /\ with_in_database(c, database, read, write)
           \/ __exit__(c)
           \/ \E error \in TeardownErrors : __exit__raising(c, error)
    \/ \E c \in {TaskContext} :
        /\ stack[MainContext] = <<>>
        /\ \/ \E database \in DatabaseArgs, read \in BOOLEAN, write \in BOOLEAN :
                  /\ isinstance_str(database) \/ isinstance_dict(database)
                  /\ async_with_in_database(c, database, read, write)
           \/ __aexit__(c)
           \/ _close_connection(c)
           \/ \E error \in TeardownErrors : _close_connection_raising(c, error)
           \/ await_run_in_executor(c)

SpecFaulty == Init /\ [][NextFaulty]_vars

\* A program that decorates a coroutine function with in_database and calls
\* and awaits it in every context.
NextCoroutine ==
    \E c \in Contexts :
        \/ \E database \in DatabaseArgs, read \in BOOLEAN, write \in BOOLEAN :
               __call__(c, database, read, write)
        \/ \E i \in 1..Len(objs) : inner_coroutine(c, i)
        \/ await_coroutine(c)
        \/ coroutine_returns(c)
        \/ caller_except(c)

SpecCoroutine == Init /\ [][NextCoroutine]_vars

\* ------------------------------------------------------------------ claims
\* The steps of context c that open and that close a with-block.
Entered(c) == Len(stack'[c]) = Len(stack[c]) + 1

Exited(c) == Len(stack'[c]) + 1 = Len(stack[c])

\* The with-block that the step closes, and the one that it opens.
Closing(c) == stack[c][Len(stack[c])]

Opening(c) == stack'[c][Len(stack'[c])]

Max(S) == CHOOSE x \in S : \A y \in S : y <= x

\* The target of the innermost open with-block of c whose instance has the flag
\* (read or write) set, or 'default'.
InnermostRead(c) ==
    LET on == {k \in 1..Len(stack[c]) : Self(stack[c][k]).read}
    IN  IF on = {} THEN "default" ELSE Self(stack[c][Max(on)]).database

InnermostWrite(c) ==
    LET on == {k \in 1..Len(stack[c]) : Self(stack[c][k]).write}
    IN  IF on = {} THEN "default" ELSE Self(stack[c][Max(on)]).database

C2_ReadWriteOverride ==
    /\ [](\A c \in Contexts :
            (stack[c] # <<>> /\ Self(Top(c)).read /\ Self(Top(c)).write) =>
                /\ db_for_read(c) = Self(Top(c)).database
                /\ db_for_write(c) = Self(Top(c)).database)
    /\ [][\A c \in Contexts :
            (Exited(c) /\ Self(Closing(c)).read /\ Self(Closing(c)).write) =>
                /\ db_for_read(c)' = Closing(c).pre_read
                /\ db_for_write(c)' = Closing(c).pre_write]_vars

\* The code inside a read+write override has raised; the pre-entry aliases were
\* two different aliases, neither of them the default nor the target.
C2_Witness ==
    \E c \in Contexts :
        /\ stack[c] # <<>>
        /\ Self(Top(c)).read /\ Self(Top(c)).write
        /\ exc[c] = "QueryError"
        /\ Top(c).pre_read # Top(c).pre_write
        /\ Top(c).pre_read \notin {"default", Self(Top(c)).database}
        /\ Top(c).pre_write \notin {"default", Self(Top(c)).database}
        /\ db_for_read(c) = Self(Top(c)).database

\* C3: an instance entered again while it is active restores, at the outermost
\* exit, the aliases from before the outermost entry.
C3_OutermostExitRestores ==
    [][\A c \in Contexts :
        (/\ Exited(c)
         /\ stack'[c] = <<>>
         /\ \A d \in Contexts \ {c} : stack[d] = <<>>) =>
            /\ db_for_read(c)' = stack[c][1].pre_read
            /\ db_for_write(c)' = stack[c][1].pre_write]_vars

OwnReadTargets(c) ==
    {Self(stack[c][k]).database : k \in {j \in 1..Len(stack[c]) : Self(stack[c][j]).read}}

OwnWriteTargets(c) ==
    {Self(stack[c][k]).database : k \in {j \in 1..Len(stack[c]) : Self(stack[c][j]).write}}

\* C5: contexts that enter different override instances do not see each other:
\* a context's aliases are its own innermost targets inside its scopes and its
\* own pre-entry values after its exit, they are never the target of an
\* override that only another context has open, and a step that is not an
\* entry or exit of the context itself leaves its aliases alone.
C5_ContextIsolation ==
    /\ [](\A c \in Contexts :
            /\ db_for_read(c) \in OwnReadTargets(c) \cup {"default"}
            /\ db_for_write(c) \in OwnWriteTargets(c) \cup {"default"}
            /\ stack[c] # <<>> =>
                   /\ Self(Top(c)).read => db_for_read(c) = Self(Top(c)).database
                   /\ Self(Top(c)).write => db_for_write(c) = Self(Top(c)).database)
    /\ [][\A c \in Contexts :
            /\ stack'[c] = stack[c] =>
                   /\ db_for_read(c)' = db_for_read(c)
                   /\ db_for_write(c)' = db_for_write(c)
            /\ Exited(c) =>
                   /\ db_for_read(c)' = Closing(c).pre_read
                   /\ db_for_write(c)' = Closing(c).pre_write]_vars

\* Two contexts are inside overrides with different targets at the same time,
\* one of them nested in another override, and each reads its own target.
C5_Witness ==
    \E c, d \in Contexts :
        /\ c # d
        /\ Len(stack[c]) = 2 /\ Len(stack[d]) = 1
        /\ Self(Top(c)).read /\ Self(Top(d)).read
        /\ Self(Top(c)).database # Self(Top(d)).database
        /\ Top(c).pre_read \notin {"default", Self(Top(d)).database}
        /\ db_for_read(c) = Self(Top(c)).database
        /\ db_for_read(d) = Self(Top(d)).database

\* C6: with one instance used from two contexts, the aliases a context holds
\* after its own exit are that context's pre-entry values (stated for a context
\* that is inside the instance once, while another context is inside it too).
C6_SharedInstanceRestores ==
    [][\A c \in Contexts :
        (/\ Exited(c)
         /\ Closing(c).ref # 0
         /\ Cardinality({k \in 1..Len(stack[c]) : stack[c][k].ref = Closing(c).ref}) = 1
         /\ \E d \in Contexts \ {c} :
                \E k \in 1..Len(stack[d]) : stack[d][k].ref = Closing(c).ref) =>
            /\ db_for_read(c)' = Closing(c).pre_read
            /\ db_for_write(c)' = Closing(c).pre_write]_vars

\* C7: a call of the decorated function is one entry and one exit around the
\* function: after the call the aliases are those from before the call, an
\* exception the function raised leaves the call unchanged, and a function that
\* returned leaves the call without an exception.
C7_DecoratedCall ==
    [][\A c \in Contexts :
        (Exited(c) /\ Closing(c).ref # 0) =>
            /\ db_for_read(c)' = Closing(c).pre_read
            /\ db_for_write(c)' = Closing(c).pre_write
            /\ exc'[c] = exc[c]]_vars

\* The keys of connections.databases other than k are what they were, with
\* the configurations they had.
OthersUnchanged(k) ==
    /\ DOMAIN databases' \ {k} = DOMAIN databases \ {k}
    /\ \A a \in DOMAIN databases \ {k} : databases'[a] = databases[a]

C9_ActiveTargetRegistered ==
    \A c \in Contexts :
        \A k \in 1..Len(stack[c]) :
            Self(stack[c][k]).created_db_config =>
                Self(stack[c][k]).unique_db_id \in DOMAIN databases

\* C10: a constructor call with a database that is neither a str nor a dict
\* raises ValueError whatever the flags, and a constructor call that raises
\* ValueError leaves the aliases of every context, connections.databases, the
\* connections and every instance as they were.
C10_InvalidDatabase ==
    /\ [](\A c \in Contexts, read \in BOOLEAN, write \in BOOLEAN :
            \A database \in {a \in DatabaseArgs : a.type = "int"} :
                \A id \in unique_db_ids(database) :
                    __init__(database, read, write, id, databases).exc = "ValueError")
    /\ [][\A c \in Contexts :
        (exc[c] # "ValueError" /\ exc'[c] = "ValueError") =>
            UNCHANGED <<DB_FOR_READ_OVERRIDE, DB_FOR_WRITE_OVERRIDE, databases,
                        closed, objs, stack, generated>>]_vars

\* ValueError is propagating in a context that is inside an override, with a
\* configuration registered and aliases that are not the default.
C10_Witness ==
    \E c \in Contexts :
        /\ exc[c] = "ValueError"
        /\ stack[c] # <<>>
        /\ db_for_read(c) # "default"
        /\ db_for_write(c) # "default"
        /\ db_for_read(c) # db_for_write(c)
        /\ DOMAIN databases # Aliases

\* C11: an exception raised by the code inside a scope is the exception the
\* caller sees after the exit: the exit step neither suppresses it nor replaces
\* it with another one.
C11_FailurePropagates ==
    [][\A c \in Contexts :
        (Exited(c) /\ exc[c] # NoExc) => exc'[c] = exc[c]]_vars

\* C12: in every state in which a task is suspended in __aexit__, waiting for
\* the executor to tear the configuration down, its read and write alias are
\* already the pre-entry values; and a task suspends in no entry and in no
\* exit other than the exit of an override that created a configuration.
C12_RestoredBeforeSuspension ==
    /\ [](\A c \in Contexts :
            awaiting[c] # Idle =>
                /\ db_for_read(c) = awaiting[c].pre_read
                /\ db_for_write(c) = awaiting[c].pre_write)
    /\ [][\A c \in Contexts :
            /\ Entered(c) => awaiting'[c] = Idle
            /\ (awaiting[c] = Idle /\ awaiting'[c] # Idle) =>
                   Exited(c) /\ Self(Closing(c)).created_db_config
            /\ (Exited(c) /\ ~Self(Closing(c)).created_db_config) =>
                   awaiting'[c] = Idle]_vars

\* A task is suspended on the teardown of an override that applied to reads and
\* writes, an exception is leaving the block, and the pre-entry aliases were
\* two different aliases other than the default.
C12_Witness ==
    \E c \in Contexts :
        /\ awaiting[c].state = "pending"
        /\ awaiting[c].id \in DOMAIN databases
        /\ exc[c] = "QueryError"
        /\ awaiting[c].pre_read # awaiting[c].pre_write
        /\ awaiting[c].pre_read # "default"
        /\ awaiting[c].pre_write # "default"
        /\ db_for_read(c) = awaiting[c].pre_read

\* The step in which task c resumes from the await in __aexit__: the
\* asynchronous exit is complete.
Resumed(c) == awaiting[c].state = "done" /\ awaiting'[c] = Idle

C14_RouterReadsOnly ==
    /\ [](\A c \in Contexts, model \in Models, hints \in Hints :
            /\ DynamicDbRouter(c, "db_for_read", model, hints) = DB_FOR_READ_OVERRIDE[c]
            /\ DynamicDbRouter(c, "db_for_write", model, hints) = DB_FOR_WRITE_OVERRIDE[c]
            /\ DynamicDbRouter(c, "allow_relation", model, hints) = True
            /\ DynamicDbRouter(c, "allow_syncdb", model, hints) = None
            /\ DynamicDbRouter(c, "allow_migrate", model, hints) = None)
    /\ [][returned' # returned =>
            /\ UNCHANGED <<DB_FOR_READ_OVERRIDE, DB_FOR_WRITE_OVERRIDE, databases,
                           closed, objs, stack, exc, generated>>
            /\ returned'.method = "db_for_read" =>
                   returned'.value = DB_FOR_READ_OVERRIDE[returned'.context]
            /\ returned'.method = "db_for_write" =>
                   returned'.value = DB_FOR_WRITE_OVERRIDE[returned'.context]
            /\ returned'.method = "allow_relation" => returned'.value = True
            /\ returned'.method \in {"allow_syncdb", "allow_migrate"} =>
                   returned'.value = None]_vars

\* Inside an override of the main context that applies to writes only,
\* db_for_write has returned its target, which is not the read alias of that
\* context and not the write alias of the other context.
C14_Witness ==
    /\ returned.method = "db_for_write"
    /\ returned.context = MainContext
    /\ stack[MainContext] # <<>>
    /\ returned.value = Self(Top(MainContext)).database
    /\ returned.value = DB_FOR_WRITE_OVERRIDE[MainContext]
    /\ returned.value # DB_FOR_READ_OVERRIDE[MainContext]
    /\ \E d \in Contexts : returned.value # DB_FOR_WRITE_OVERRIDE[d]

\* C15: a context that is inside no override has 'default' as its read and
\* as its write alias; an override constructed with a database only applies to
\* reads and not to writes: at its entry the read alias becomes its target and
\* the write alias stays, so that in_database('replica') entered from the
\* default state gives ('replica', 'default'), and after its exit both are
\* 'default' again.
C15_DefaultFlags ==
    /\ [](\A c \in Contexts :
            stack[c] = <<>> => db_for_read(c) = "default" /\ db_for_write(c) = "default")
    /\ [][\A c \in Contexts :
            /\ Entered(c) =>
                   /\ db_for_read(c)' = Opening(c).self.database
                   /\ db_for_write(c)' = db_for_write(c)
            /\ (Entered(c) /\ stack[c] = <<>> /\ Opening(c).self.database = "replica") =>
                   /\ db_for_read(c)' = "replica"
                   /\ db_for_write(c)' = "default"
            /\ (Exited(c) /\ stack'[c] = <<>>) =>
                   /\ db_for_read(c)' = "default"
                   /\ db_for_write(c)' = "default"]_vars

\* A context is inside in_database('replica'), entered from the default state,
\* while the other context has entered no override.
C15_Witness ==
    \E c, d \in Contexts :
        /\ c # d
        /\ Len(stack[c]) = 1
        /\ stack[d] = <<>>
        /\ Top(c).pre_read = "default"
        /\ Self(Top(c)).database = "replica"
        /\ db_for_read(c) = "replica"
        /\ db_for_write(c) = "default"
        /\ db_for_read(d) = "default"

\* C16: when every scope that was entered has been left, no identifier that an
\* in_database constructor generated is a key of connections.databases, the
\* identifiers of overrides that were constructed and never entered included.
C16_EphemeralEntriesRemoved ==
    (\A c \in Contexts : stack[c] = <<>> /\ awaiting[c] = Idle) =>
        \A id \in generated : id \notin DOMAIN databases

\* The open with-blocks, as pairs of context and position in its stack, whose
\* override created a configuration.
EphemeralFrames ==
    {p \in Contexts \X (1..MaxDepth + 1) :
        /\ p[2] <= Len(stack[p[1]])
        /\ Self(stack[p[1]][p[2]]).created_db_config}

\* C17: two overrides constructed from dictionaries, equal dictionaries
\* included, never have the same identifier, no identifier is a configured
\* alias, and the exit of such an override changes connections.databases only
\* at its own identifier: the configured aliases and the entries of the other
\* overrides stay, with their configurations.
C17_OwnEntryOnly ==
    /\ [](\A p, q \in EphemeralFrames :
            /\ Self(stack[p[1]][p[2]]).unique_db_id \notin Aliases
            /\ p # q => Self(stack[p[1]][p[2]]).unique_db_id
                            # Self(stack[q[1]][q[2]]).unique_db_id)
    /\ [][\A c \in Contexts :
            (Exited(c) /\ Self(Closing(c)).created_db_config) =>
                /\ OthersUnchanged(Self(Closing(c)).unique_db_id)
                /\ \A a \in Aliases : a \in DOMAIN databases' /\ databases'[a] = Settings
                /\ \A p \in EphemeralFrames :
                       (p # <<c, Len(stack[c])>>) =>
                           LET other == Self(stack[p[1]][p[2]]).unique_db_id
                           IN  /\ other \in DOMAIN databases'
                               /\ databases'[other] = databases[other]]_vars

\* The override with the first identifier is still open and registered; the
\* one with the second identifier, constructed later from an equal dictionary
\* in the other context, has been left and its entry is gone.
C17_Witness ==
    \E c, d \in Contexts :
        /\ c # d
        /\ stack[c] = <<>>
        /\ Len(stack[d]) = 1
        /\ Self(Top(d)).unique_db_id = Uuid(1)
        /\ Uuid(1) \in DOMAIN databases
        /\ databases[Uuid(1)] \in Configs
        /\ Uuid(2) \in closed
        /\ Uuid(2) \notin DOMAIN databases
        /\ Uuid(1) \notin closed

\* C18: when the teardown of an override that created a configuration
\* fails, the aliases are restored all the same. Synchronous exit: the step
\* that ends with the teardown's exception leaves the context at its pre-entry
\* aliases. Asynchronous exit: while the future holds the exception, and when
\* the await raises it in the task, the task is at its pre-entry aliases.
C18_RestoredWhenTeardownFails ==
    /\ [](\A c \in Contexts :
            awaiting[c].result # NoExc =>
                /\ db_for_read(c) = awaiting[c].pre_read
                /\ db_for_write(c) = awaiting[c].pre_write)
    /\ [][\A c \in Contexts :
            /\ (Exited(c) /\ exc'[c] # exc[c]) =>
                   /\ exc'[c] \in TeardownErrors
                   /\ db_for_read(c)' = Closing(c).pre_read
                   /\ db_for_write(c)' = Closing(c).pre_write
            /\ (Resumed(c) /\ awaiting[c].result # NoExc) =>
                   /\ exc'[c] = awaiting[c].result
                   /\ db_for_read(c)' = awaiting[c].pre_read
                   /\ db_for_write(c)' = awaiting[c].pre_write]_vars

\* The thread has left, with a failed teardown, an override that applied to
\* reads and sat inside another override: its read alias is the outer target,
\* the entry is still registered and no with-block of the thread owns it; the
\* task has had a teardown fail too.
C18_Witness ==
    /\ exc[MainContext] \in TeardownErrors
    /\ exc[TaskContext] \in TeardownErrors
    /\ Len(stack[MainContext]) = 1
    /\ db_for_read(MainContext) = Self(Top(MainContext)).database
    /\ db_for_read(MainContext) = "replica"
    /\ \E id \in generated \cap DOMAIN databases : id \notin closed

\* C19: whenever the body of a decorated function is executing in a context,
\* the aliases the override applies to are its target in that context: for a
\* function, while the call's with-block is the innermost one; for a coroutine
\* function, while the awaited coroutine runs.
C19_BodyInsideScope ==
    \A c \in Contexts :
        /\ (stack[c] # <<>> /\ Top(c).ref # 0) =>
               /\ Self(Top(c)).read => db_for_read(c) = Self(Top(c)).database
               /\ Self(Top(c)).write => db_for_write(c) = Self(Top(c)).database
        /\ coroutine[c].state = "running" =>
               /\ objs[coroutine[c].ref].read =>
                      db_for_read(c) = objs[coroutine[c].ref].database
               /\ objs[coroutine[c].ref].write =>
                      db_for_write(c) = objs[coroutine[c].ref].database

====
